---- MODULE Spec2Model ----
(***************************************************************************)
(* Model of the two infrastructure components of the actix-web backend:    *)
(*   - SimpleCache  (src/src/cache.rs): a Mutex<HashMap<String, CacheItem>> *)
(*     with optional per-entry expiry and a sweep run by get;              *)
(*   - JsonLogger   (src/src/middleware/json_logger.rs): a JSON-lines log  *)
(*     writer with per-date, per-size file rotation.                       *)
(* The components are independent; each has its own specification          *)
(* (SpecCache, SpecLogger) over the shared wall clock.  SpecCacheTasks     *)
(* runs the cache operations line by line in concurrent tasks, and         *)
(* SpecRequests runs requests through ErrorHandlerMiddleware               *)
(* (src/src/middleware/error_handler.rs), which logs under the lock of the *)
(* shared logger.                                                          *)
(***************************************************************************)
EXTENDS Integers, Sequences, FiniteSets, TLC

(***************************************************************************)
(* Bounds of the model.                                                    *)
(***************************************************************************)
\* the wall clock runs over 0..MaxClock (one unit = one second, scaled)
MaxClock == 3
\* largest second count a SystemTime can hold (i64 seconds, scaled down)
I64Max == 15
\* largest ttl a request can carry (u64, scaled to the same width + 1 bit)
U64Max == 2 * I64Max + 1

Keys == {"a", "b"}
Values == {"v1", "v2"}
\* ttl: Option<u64> as sent by a set request
None == [some |-> FALSE, v |-> 0]
Some(x) == [some |-> TRUE, v |-> x]
Ttls == {None, Some(0), Some(1), Some(2), Some(U64Max)}

VARIABLES
    clock,      \* the system wall clock (SystemTime::now / Local::now)
    inner,      \* SimpleCache.inner: the HashMap, a function key -> CacheItem
    poisoned,   \* the Mutex around inner is poisoned
    ret,        \* the last cache call and what it returned
    lastSet,    \* history: per key, the last successful set not yet followed
                \* by another set or a remove of that key or by a clear
                \* (its arguments, its instant and what it replaced)
    removed,    \* history: the keys whose entry a remove deleted, not set since,
                \* each with whether the entry's expiry had passed
    cleared,    \* history: what the last clear found, while no set has followed
    up,                  \* a JsonLogger exists (the process runs)
    current_date,        \* JsonLogger.current_date
    current_file_index,  \* JsonLogger.current_file_index
    file_writer,         \* JsonLogger.file_writer: the open file and its buffer
    disk,       \* the files of config.log_dir: file name -> bytes
    opened,     \* the files the last logger call opened, in order
    hist,       \* history: the log calls made so far and their results
    faults,     \* history: the number of calls during which a file operation failed
    restarts,   \* history: the number of restarts
    pc,         \* per request-handling task: the line it is at
    call,       \* per task: the call it is in (arguments and locals)
    holder,     \* the task holding the MutexGuard of SimpleCache.inner
    started,    \* history: the number of calls or requests the tasks have started
    req,        \* per task: the request the error-handling middleware is serving
    logHolder,  \* the task holding the MutexGuard of the shared JsonLogger
    logPoisoned,\* the Mutex around the shared JsonLogger is poisoned
    writerHolder, \* the task holding the MutexGuard of JsonLogger.file_writer
    served      \* history: the requests answered, with the inner service's result

cacheVars == <<inner, poisoned, ret, lastSet, removed, cleared>>
taskVars == <<pc, call, holder, started>>
requestVars == <<req, logHolder, logPoisoned, writerHolder, served>>
loggerVars == <<up, current_date, current_file_index, file_writer, disk,
                opened, hist, faults, restarts>>

(***************************************************************************)
(* SimpleCache                                                             *)
(***************************************************************************)
CacheItem(value, expiry) == [value |-> value, expiry |-> expiry]

EmptyMap == [x \in {} |-> CacheItem("v1", None)]

\* HashMap::insert
Insert(m, k, item) == [x \in DOMAIN m \cup {k} |-> IF x = k THEN item ELSE m[x]]

\* HashMap::remove / retain
Restrict(m, S) == [x \in S |-> m[x]]

\* SystemTime::now() + Duration::from_secs(seconds) overflows (and panics)
\* when the sum does not fit the SystemTime representation
AddOverflows(now, seconds) == now + seconds > I64Max

\* ttl.map(|seconds| SystemTime::now() + Duration::from_secs(seconds))
Expiry(now, ttl) == IF ttl.some THEN Some(now + ttl.v) ELSE None

\* expiry.duration_since(now) is Ok(_) exactly when now is not later than expiry
DurationSinceOk(expiry, now) == expiry >= now

\* the closure of inner.retain in cleanup_expired
Retained(item, now) ==
    IF item.expiry.some THEN DurationSinceOk(item.expiry.v, now) ELSE TRUE

\* SimpleCache::cleanup_expired
CleanupExpired(m, now) == Restrict(m, {k \in DOMAIN m : Retained(m[k], now)})

\* HashMap::insert finds an entry under the key, with an expiry where the new
\* one has none or without an expiry where the new one has one
Replaced(m, k, ttl) == k \in DOMAIN m /\ m[k].expiry.some # ttl.some

\* history of a set(k, ..) that acquired the lock
NoteSet(k) ==
    /\ removed' = Restrict(removed, DOMAIN removed \ {k})
    /\ cleared' = "no"

\* history of a remove(k) on the store m
NoteRemove(k, m) ==
    /\ removed' = IF k \in DOMAIN m
                  THEN Insert(removed, k, ~Retained(m[k], clock))
                  ELSE removed
    /\ UNCHANGED cleared

\* history of a clear() on the store m at the instant now: the store was
\* empty, held an entry whose expiry had passed, or held unexpired entries only
NoteClear(m, now) ==
    /\ cleared' = IF DOMAIN m = {} THEN "empty"
                  ELSE IF \E k \in DOMAIN m : ~Retained(m[k], now) THEN "expired"
                  ELSE "live"
    /\ UNCHANGED removed

Ret(op, key, kind, val, n, ttl) ==
    [op |-> op, key |-> key, kind |-> kind, val |-> val, n |-> n,
     ttl |-> ttl, at |-> clock]

\* self.inner.lock() on a poisoned mutex: map_err(..)? returns Err
LockFailure(op, key) ==
    /\ poisoned
    /\ ret' = Ret(op, key, "lockfail", "", 0, None)
    /\ UNCHANGED <<clock, inner, poisoned, lastSet, removed, cleared, loggerVars,
                   taskVars, requestVars>>

\* SimpleCache::set
Set(k, v, ttl) ==
    \/ LockFailure("set", k)
    \/ /\ ~poisoned
       /\ ttl.some /\ AddOverflows(clock, ttl.v)
       \* the addition panics while the guard is held: the mutex is poisoned
       /\ poisoned' = TRUE
       /\ ret' = Ret("set", k, "panic", "", 0, ttl)
       /\ lastSet' = Restrict(lastSet, DOMAIN lastSet \ {k})
       /\ NoteSet(k)
       /\ UNCHANGED <<clock, inner, loggerVars, taskVars, requestVars>>
    \/ /\ ~poisoned
       /\ ~(ttl.some /\ AddOverflows(clock, ttl.v))
       /\ inner' = Insert(inner, k, CacheItem(v, Expiry(clock, ttl)))
       /\ ret' = Ret("set", k, "ok", "", 0, ttl)
       /\ lastSet' = Insert(lastSet, k, [value |-> v, ttl |-> ttl, at |-> clock,
                                         over |-> Replaced(inner, k, ttl)])
       /\ NoteSet(k)
       /\ UNCHANGED <<clock, poisoned, loggerVars, taskVars, requestVars>>

\* a get that goes on with the store of a poisoned lock
GetThroughPoison(k) ==
    /\ inner' = CleanupExpired(inner, clock)
    /\ ret' = IF k \in DOMAIN CleanupExpired(inner, clock)
              THEN Ret("get", k, "found", inner[k].value, 0, None)
              ELSE Ret("get", k, "notfound", "", 0, None)
    /\ UNCHANGED <<clock, poisoned, lastSet, removed, cleared, loggerVars, taskVars,
                   requestVars>>

\* a get whose sweep looks at the requested key only
GetSweepsOwnKey(k) ==
    \/ LockFailure("get", k)
    \/ /\ ~poisoned
       /\ inner' = Restrict(inner, {x \in DOMAIN inner : x # k \/ Retained(inner[x], clock)})
       /\ ret' = IF k \in DOMAIN CleanupExpired(inner, clock)
                 THEN Ret("get", k, "found", inner[k].value, 0, None)
                 ELSE Ret("get", k, "notfound", "", 0, None)
       /\ UNCHANGED <<clock, poisoned, lastSet, removed, cleared, loggerVars, taskVars,
                      requestVars>>

\* SimpleCache::get
Get(k) ==
    \/ LockFailure("get", k)
    \/ /\ ~poisoned
       /\ LET swept == CleanupExpired(inner, clock)
          IN /\ inner' = swept
             /\ ret' = IF k \in DOMAIN swept
                       THEN Ret("get", k, "found", swept[k].value, 0, None)
                       ELSE Ret("get", k, "notfound", "", 0, None)
       /\ UNCHANGED <<clock, poisoned, lastSet, removed, cleared, loggerVars, taskVars,
                      requestVars>>

\* a remove that sweeps the expired entries before it looks for the key
RemoveSweeps(k) ==
    \/ LockFailure("remove", k)
    \/ /\ ~poisoned
       /\ inner' = Restrict(CleanupExpired(inner, clock),
                            DOMAIN CleanupExpired(inner, clock) \ {k})
       /\ ret' = Ret("remove", k, "removed", "",
                     IF k \in DOMAIN CleanupExpired(inner, clock) THEN 1 ELSE 0, None)
       /\ lastSet' = Restrict(lastSet, DOMAIN lastSet \ {k})
       /\ NoteRemove(k, inner)
       /\ UNCHANGED <<clock, poisoned, loggerVars, taskVars, requestVars>>

\* SimpleCache::remove
Remove(k) ==
    \/ LockFailure("remove", k)
    \/ /\ ~poisoned
       /\ inner' = Restrict(inner, DOMAIN inner \ {k})
       /\ ret' = Ret("remove", k, "removed", "", IF k \in DOMAIN inner THEN 1 ELSE 0, None)
       /\ lastSet' = Restrict(lastSet, DOMAIN lastSet \ {k})
       /\ NoteRemove(k, inner)
       /\ UNCHANGED <<clock, poisoned, loggerVars, taskVars, requestVars>>

\* a len that sweeps the expired entries before it counts
LenSweeps ==
    \/ LockFailure("len", "")
    \/ /\ ~poisoned
       /\ inner' = CleanupExpired(inner, clock)
       /\ ret' = Ret("len", "", "count", "", Cardinality(DOMAIN CleanupExpired(inner, clock)), None)
       /\ UNCHANGED <<clock, poisoned, lastSet, removed, cleared, loggerVars, taskVars,
                      requestVars>>

\* SimpleCache::len
CacheLen ==
    \/ LockFailure("len", "")
    \/ /\ ~poisoned
       /\ ret' = Ret("len", "", "count", "", Cardinality(DOMAIN inner), None)
       /\ UNCHANGED <<clock, inner, poisoned, lastSet, removed, cleared, loggerVars,
                      taskVars, requestVars>>

\* a clear that drops the expired entries only
ClearSweeps ==
    \/ LockFailure("clear", "")
    \/ /\ ~poisoned
       /\ inner' = CleanupExpired(inner, clock)
       /\ ret' = Ret("clear", "", "ok", "", 0, None)
       /\ lastSet' = <<>>
       /\ NoteClear(inner, clock)
       /\ UNCHANGED <<clock, poisoned, loggerVars, taskVars, requestVars>>

\* SimpleCache::clear
Clear ==
    \/ LockFailure("clear", "")
    \/ /\ ~poisoned
       /\ inner' = EmptyMap
       /\ ret' = Ret("clear", "", "ok", "", 0, None)
       /\ lastSet' = <<>>
       /\ NoteClear(inner, clock)
       /\ UNCHANGED <<clock, poisoned, loggerVars, taskVars, requestVars>>


(***************************************************************************)
(* JsonLogger                                                              *)
(***************************************************************************)
\* enum LogLevel, in declaration order (derive(PartialOrd, Ord))
TRACE == 0
DEBUG == 1
INFO == 2
WARNING == 3
ERROR == 4
FATAL == 5
\* levels the callers of the model log with
Levels == {DEBUG, INFO}
\* JsonLoggerConfig::default().min_level
MinLevel == INFO

\* JsonLoggerConfig.max_file_size_mb of the modelled logger (scaled down)
MaxFileSizeMb == 1
\* the divisor 1024 * 1024 of the size checks, scaled down
BytesPerMb == 3
\* capacity of the BufWriter (8192 bytes in std), scaled down
BufCapacity == 2
\* the serialized JSON text of a record is shorter than the buffer or fills it
\* (a record with a stack trace exceeds the 8192 bytes of the real buffer)
Sizes == {BufCapacity - 1, BufCapacity}
\* length of a calendar day on the wall clock, scaled down
SecondsPerDay == 2
\* log calls per behaviour
MaxCalls == 3
\* process restarts (JsonLogger::new on the same directory) per behaviour
MaxRestarts == 1
\* calls during which a file operation fails, per behaviour
MaxFaults == 1
\* the wall clock of the logger runs over 0..MaxLogClock
MaxLogClock == 2
\* the bytes the file system accepts during a call before a write fails:
\* none, one (a partial write), or all of them
Unlimited == 100 * (BufCapacity + 1)
Rooms == {0, 1, Unlimited}
\* the file opens the file system lets succeed during a call: none, the first
\* only, or all of them (a call opens at most two files)
Opens == {0, 1, 2}

Min(a, b) == IF a < b THEN a ELSE b
SetMax(S) == CHOOSE x \in S : \A y \in S : y <= x
Take(s, n) == SubSeq(s, 1, n)
Drop(s, n) == SubSeq(s, n + 1, Len(s))

\* now.format("%Y-%m-%d")
FormatDate(now) == now \div SecondsPerDay

\* a file name "{date}{sep}app{sep}{index}.log"
FileName(date, sep, index) == [date |-> date, sep |-> sep, index |-> index]

\* file_name.starts_with(&format!("{}{sep}{}{sep}", date, "app"))
StartsWith(name, date, sep) == name.date = date /\ name.sep = sep

\* file_name.strip_prefix(&format!("{}{sep}{}{sep}", date, "app"))
\*     .and_then(|s| s.strip_suffix(".log")) and index_str.parse::<u32>()
StripPrefix(name, date, sep) ==
    IF name.date = date /\ name.sep = sep THEN Some(name.index) ELSE None

\* the bytes of one record: the JSON text (chunks 1..size) and the newline (k = 0)
JsonBytes(id, ts, level, size) ==
    [i \in 1..size |-> [id |-> id, ts |-> ts, level |-> level, k |-> i, of |-> size]]
NewlineByte(id, ts, level, size) ==
    [id |-> id, ts |-> ts, level |-> level, k |-> 0, of |-> size]
RecordBytes(id, ts, level, size) ==
    Append(JsonBytes(id, ts, level, size), NewlineByte(id, ts, level, size))

NoWriter == [some |-> FALSE, path |-> FileName(0, "-", 0), buf |-> <<>>]
OpenWriter(path) == [some |-> TRUE, path |-> path, buf |-> <<>>]

(* The operators below thread a record M through the steps of one call:     *)
(*   current_date, current_file_index, file_writer : the JsonLogger fields  *)
(*   disk    : the files of log_dir, file name -> content                   *)
(*   opened  : the files opened by this call, in order                      *)
(*   opens   : how many more file opens the file system lets succeed        *)
(*   room    : how many more bytes the file system accepts                  *)
(*   fault   : an I/O operation of this call failed                         *)
(*   ok      : the Result of the last step                                  *)

\* JsonLogger::get_log_file_path
GetLogFilePath(M) == FileName(M.current_date, "-", M.current_file_index)

\* metadata.len() / (1024 * 1024)
FileSizeMb(M, path) == Len(M.disk[path]) \div BytesPerMb

\* the read_dir loop of init_log_file: the largest index among the names that
\* start with "{date}-app-" and from which "{date}_app_" and ".log" strip
ScanMaxIndex(M) ==
    LET matching == {n \in DOMAIN M.disk :
                        /\ StartsWith(n, M.current_date, "-")
                        /\ StripPrefix(n, M.current_date, "_").some}
    IN SetMax({StripPrefix(n, M.current_date, "_").v : n \in matching} \cup {0})

\* File::write_all: the bytes reach the file until the file system refuses
FileWriteAll(M, path, bytes) ==
    LET n == Min(Len(bytes), M.room)
    IN [M EXCEPT !.disk[path] = @ \o Take(bytes, n),
                 !.room = @ - n,
                 !.fault = @ \/ n < Len(bytes),
                 !.ok = (n = Len(bytes))]

\* BufWriter::flush_buf: what was written leaves the buffer, the rest stays
FlushBuf(M) ==
    LET w == M.file_writer
        n == Min(Len(w.buf), M.room)
    IN [M EXCEPT !.disk[w.path] = @ \o Take(w.buf, n),
                 !.file_writer.buf = Drop(@, n),
                 !.room = @ - n,
                 !.fault = @ \/ n < Len(w.buf),
                 !.ok = (n = Len(w.buf))]

\* BufWriter::spare_capacity
SpareCapacity(M) == BufCapacity - Len(M.file_writer.buf)

\* BufWriter::write_all_cold after its flush (whose failure it returns): bytes
\* that would fill the buffer go to the file directly, shorter ones to the buffer
WriteOrBuffer(M, bytes) ==
    IF ~M.ok THEN M
    ELSE IF Len(bytes) >= BufCapacity
         THEN FileWriteAll(M, M.file_writer.path, bytes)
         ELSE [M EXCEPT !.file_writer.buf = @ \o bytes, !.ok = TRUE]

\* BufWriter::write_all_cold: flush first when the bytes do not fit
WriteAllCold(M, bytes) ==
    WriteOrBuffer(IF Len(bytes) > SpareCapacity(M)
                  THEN FlushBuf(M) ELSE [M EXCEPT !.ok = TRUE], bytes)

\* BufWriter::write_all
BufWriteAll(M, bytes) ==
    IF Len(bytes) < SpareCapacity(M)
    THEN [M EXCEPT !.file_writer.buf = @ \o bytes, !.ok = TRUE]
    ELSE WriteAllCold(M, bytes)

\* the next write_all of a write_fmt, not reached after a failed one
ThenWriteAll(M, bytes) == IF ~M.ok THEN M ELSE BufWriteAll(M, bytes)

\* writeln!(writer, "{}", json)
Writeln(M, json, newline) == ThenWriteAll(BufWriteAll(M, json), <<newline>>)

\* a log call that returned without flushing its writer
FlushSkipped(M) == [M EXCEPT !.ok = TRUE]

\* writer.flush(): BufWriter::flush (File::flush does nothing)
Flush(M) == FlushBuf(M)

\* dropping the BufWriter that file_writer held: a flush whose result is ignored,
\* what it did not write is lost
DropWriter(M) ==
    IF M.file_writer.some
    THEN [FlushBuf(M) EXCEPT !.file_writer = NoWriter, !.ok = TRUE]
    ELSE M

\* init_log_file, lines 100-103: a changed date resets the index
ResetOnDateChange(M, today) ==
    IF today # M.current_date
    THEN [M EXCEPT !.current_date = today, !.current_file_index = 0]
    ELSE M

\* init_log_file, lines 105-126: the index becomes what the scan found
ScanDirectory(M) == [M EXCEPT !.current_file_index = ScanMaxIndex(M)]

\* the file the recorded date and index name exists with file_size_mb >= max_file_size_mb
AtSizeLimit(M) ==
    /\ GetLogFilePath(M) \in DOMAIN M.disk
    /\ FileSizeMb(M, GetLogFilePath(M)) >= MaxFileSizeMb

\* an init_log_file without the size check of lines 128-137
StayOnFullFile(M) == M

\* init_log_file, lines 128-137: step over a file at the size limit
StepOverFullFile(M) ==
    IF AtSizeLimit(M) THEN [M EXCEPT !.current_file_index = @ + 1] ELSE M

\* an open that creates the file anew (File::create), successful
CreateTruncating(M, path) ==
    [M EXCEPT !.disk = Insert(@, path, <<>>),
              !.opens = @ - 1,
              !.opened = Append(@, path)]

\* OpenOptions::new().create(true).append(true).open(path), successful
CreateFile(M, path) ==
    [M EXCEPT !.disk = IF path \in DOMAIN @ THEN @ ELSE Insert(@, path, <<>>),
              !.opens = @ - 1,
              !.opened = Append(@, path)]

\* init_log_file, lines 139-149: open the file and replace the writer; a failed
\* open returns before the writer is touched
OpenLogFile(M) ==
    IF M.opens = 0
    THEN [M EXCEPT !.fault = TRUE, !.ok = FALSE]
    ELSE [DropWriter(CreateFile(M, GetLogFilePath(M)))
             EXCEPT !.file_writer = OpenWriter(GetLogFilePath(M)), !.ok = TRUE]

\* JsonLogger::init_log_file
InitLogFile(M, now) ==
    CHOOSE R \in {OpenLogFile(C) :
                     C \in {StepOverFullFile(B) :
                              B \in {ScanDirectory(A) :
                                       A \in {ResetOnDateChange(M, FormatDate(now))}}}} : TRUE

\* check_and_rotate, lines 163-170; now is the reading of Local::now() at line 96
RotateOnSize(M, now) ==
    IF AtSizeLimit(M)
    THEN InitLogFile([M EXCEPT !.current_file_index = @ + 1], now)
    ELSE [M EXCEPT !.ok = TRUE]

\* check_and_rotate, lines 172-179, not reached after a failed size rotation;
\* now173 and now96 are the readings of Local::now() at lines 173 and 96
RotateOnDate(M, now173, now96) ==
    IF ~M.ok THEN M
    ELSE IF FormatDate(now173) # M.current_date THEN InitLogFile(M, now96) ELSE M

\* JsonLogger::check_and_rotate; r[1], r[2], r[3] are the readings of Local::now()
\* at line 96 (first init_log_file), line 173 and line 96 (second init_log_file)
CheckAndRotate(M, r) ==
    CHOOSE R \in {RotateOnDate(S, r[2], r[3]) : S \in {RotateOnSize(M, r[1])}} : TRUE

\* a filter that also drops the records at the minimum level
FilteredAtMin(level) == level <= MinLevel

\* level < self.config.min_level
Filtered(level) == level < MinLevel

\* log, line 210, not reached after a failed writeln!
ThenFlush(M) == IF M.ok THEN Flush(M) ELSE M

\* log, lines 190-213, after check_and_rotate (whose failure it returns)
WriteRecord(M, json, newline) ==
    IF ~M.ok
    THEN [M EXCEPT !.stage = "rotate"]
    ELSE IF ~M.file_writer.some
         THEN [M EXCEPT !.stage = "nowriter"]
         ELSE [ThenFlush(Writeln(M, json, newline)) EXCEPT !.stage = "write"]

\* a log that runs the rotation check before it looks at the level
LogCallRotatesFirst(M, id, level, size, r) ==
    IF Filtered(level)
    THEN [CheckAndRotate(M, r) EXCEPT !.stage = "filtered"]
    ELSE WriteRecord(CheckAndRotate(M, r), JsonBytes(id, r[4], level, size),
                     NewlineByte(id, r[4], level, size))

\* JsonLogger::log; r[4] is the reading of Local::now() at line 193
LogCall(M, id, level, size, r) ==
    IF Filtered(level)
    THEN [M EXCEPT !.ok = TRUE, !.stage = "filtered"]
    ELSE WriteRecord(CheckAndRotate(M, r), JsonBytes(id, r[4], level, size),
                     NewlineByte(id, r[4], level, size))

\* a new that ignores the result of create_dir_all
NewUnchecked(M, dirOk, r) ==
    InitLogFile([M EXCEPT !.current_date = FormatDate(r[1]),
                          !.current_file_index = 0,
                          !.file_writer = NoWriter,
                          !.fault = ~dirOk], r[2])

\* JsonLogger::new; r[1], r[2] are the readings of Local::now() at lines 77 and 96
New(M, dirOk, r) ==
    IF ~dirOk
    THEN [M EXCEPT !.fault = TRUE, !.ok = FALSE]
    ELSE InitLogFile([M EXCEPT !.current_date = FormatDate(r[1]),
                               !.current_file_index = 0,
                               !.file_writer = NoWriter], r[2])

\* the readings of the wall clock during one call: at most one second passes,
\* just before reading number p (p = 0: none passes)
Reads(n, p) == [i \in 1..n |-> IF p # 0 /\ i >= p THEN clock + 1 ELSE clock]

\* the logger and its directory at the start of a call, with what the
\* environment will let the call's file operations do
Machine(opens, room) ==
    [current_date |-> current_date, current_file_index |-> current_file_index,
     file_writer |-> file_writer, disk |-> disk, opened |-> <<>>,
     opens |-> opens, room |-> room, fault |-> FALSE, ok |-> TRUE, stage |-> "none"]

\* the logger and its directory at the end of a call
Commit(M) ==
    /\ current_date' = M.current_date
    /\ current_file_index' = M.current_file_index
    /\ file_writer' = M.file_writer
    /\ disk' = M.disk
    /\ opened' = M.opened
    /\ faults' = IF M.fault THEN faults + 1 ELSE faults

\* a log call returns: its effects, and its result in the history
Returned(M, level) ==
    /\ Commit(M)
    /\ hist' = Append(hist, [id |-> Len(hist) + 1, level |-> level,
                             ok |-> M.ok, stage |-> M.stage])

\* the process after the end of the old one, before main builds the logger
Ended(M, graceful) ==
    IF graceful THEN DropWriter(M) ELSE [M EXCEPT !.file_writer = NoWriter]

\* main: the process runs when JsonLogger::new returned Ok
Started(M) ==
    /\ Commit(M)
    /\ up' = M.ok

\* one call of JsonLogger::log (through any of the convenience wrappers)
Log(level, size, p, opens, room) ==
    /\ up
    /\ Len(hist) < MaxCalls
    /\ IF Filtered(level) THEN p = 0 ELSE (p # 0 => clock < MaxLogClock)
    /\ (opens # 2 \/ room # Unlimited) => faults < MaxFaults
    /\ Returned(LogCall(Machine(opens, room), Len(hist) + 1, level, size, Reads(4, p)),
                level)
    /\ clock' = Reads(4, p)[4]
    /\ UNCHANGED <<up, restarts, cacheVars, taskVars, requestVars>>

\* the process ends (its logger dropped, or killed with its buffer) and starts
\* again: main builds a new JsonLogger on the same directory
Restart(graceful, dirOk, p, opens, room) ==
    /\ restarts < MaxRestarts
    /\ p # 0 => clock < MaxLogClock
    /\ (~dirOk \/ opens # 2 \/ room # Unlimited) => faults < MaxFaults
    /\ Started(New(Ended(Machine(opens, room), graceful), dirOk, Reads(2, p)))
    /\ clock' = Reads(2, p)[2]
    /\ restarts' = restarts + 1
    /\ UNCHANGED <<hist, cacheVars, taskVars, requestVars>>

\* time passes
Tick ==
    /\ clock < MaxClock
    /\ clock' = clock + 1
    /\ UNCHANGED <<cacheVars, loggerVars, taskVars, requestVars>>

LoggerTick ==
    /\ clock < MaxLogClock
    /\ clock' = clock + 1
    /\ UNCHANGED <<cacheVars, loggerVars, taskVars, requestVars>>

\* the log calls main makes before the server runs: lines 35, 75 and 84 (or
\* 93 when the Redis pool could not be built)
MainLogSites == 3
\* log calls of the running server per behaviour
MaxServedCalls == 1

\* the level main logs with at its site: INFO, or ERROR at line 93
MainLevels(site) == IF site = MainLogSites THEN {INFO, ERROR} ELSE {INFO}

\* `.unwrap()` on the result of a log call in main: an Err panics the main
\* thread, whose unwinding drops the logger (and its writer, which flushes)
Unwrapped(M) == IF M.ok THEN M ELSE [DropWriter(M) EXCEPT !.ok = FALSE]

\* main goes on after an Ok, the process ends after an Err
MainLogEnds(M, level) ==
    /\ Returned(Unwrapped(M), level)
    /\ up' = M.ok

\* main, lines 33-36, 73-76, 82-85 and 90-94: logger.info(..).unwrap() or
\* logger.log_with_data(LogLevel::ERROR, ..).unwrap(); the site is the
\* number of log calls made so far
MainLog(level, size, p, opens, room) ==
    /\ up
    /\ Len(hist) < MainLogSites
    /\ level \in MainLevels(Len(hist) + 1)
    /\ p # 0 => clock < MaxLogClock
    /\ (opens # 2 \/ room # Unlimited) => faults < MaxFaults
    /\ MainLogEnds(LogCall(Machine(opens, room), Len(hist) + 1, level, size,
                           Reads(4, p)), level)
    /\ clock' = Reads(4, p)[4]
    /\ UNCHANGED <<restarts, cacheVars, taskVars, requestVars>>

\* a log call of the middleware or of a handler once the server runs: its
\* result is dropped by `let _ =`
ServedLog(level, size, p, opens, room) ==
    /\ up
    /\ Len(hist) >= MainLogSites
    /\ Len(hist) < MainLogSites + MaxServedCalls
    /\ p # 0 => clock < MaxLogClock
    /\ (opens # 2 \/ room # Unlimited) => faults < MaxFaults
    /\ Returned(LogCall(Machine(opens, room), Len(hist) + 1, level, size,
                        Reads(4, p)), level)
    /\ clock' = Reads(4, p)[4]
    /\ UNCHANGED <<up, restarts, cacheVars, taskVars, requestVars>>

(***************************************************************************)
(* Request-handling tasks calling the shared cache (web::Data<Cache>): the *)
(* cache operations line by line, with the MutexGuard taken at their first *)
(* line and dropped when they return or unwind.                            *)
(***************************************************************************)
\* the concurrent request-handling tasks
Tasks == {"t1", "t2"}
\* the value a task's set request carries
ValueOf(t) == IF t = "t1" THEN "v1" ELSE "v2"
\* the ttl a task's set request carries
TaskTtls == {None, Some(0), Some(U64Max)}
\* calls the tasks start per behaviour
MaxTaskCalls == 3
\* the wall clock of the tasks runs over 0..MaxTaskClock
MaxTaskClock == 1

Free == "free"
NoCall == [op |-> "none", key |-> "", value |-> "", ttl |-> None,
           snap |-> EmptyMap, now |-> 0]

\* a handler of cache_routes calls a SimpleCache operation
TaskCall(t, op, k, ttl) ==
    /\ pc[t] = "idle"
    /\ started < MaxTaskCalls
    /\ started' = started + 1
    /\ call' = [call EXCEPT ![t] = [op |-> op, key |-> k, value |-> ValueOf(t),
                                    ttl |-> ttl, snap |-> EmptyMap, now |-> 0]]
    /\ pc' = [pc EXCEPT ![t] = "lock"]
    /\ UNCHANGED <<clock, cacheVars, loggerVars, holder, requestVars>>

\* the task leaves the operation: the guard is dropped
TaskReturn(t) ==
    /\ pc' = [pc EXCEPT ![t] = "idle"]
    /\ call' = [call EXCEPT ![t] = NoCall]
    /\ holder' = Free

\* a lock that lets a task in while another task holds the guard
TaskLockNoWait(t) ==
    /\ pc[t] = "lock"
    /\ IF poisoned
       THEN /\ ret' = Ret(call[t].op, call[t].key, "lockfail", "", 0, None)
            /\ TaskReturn(t)
       ELSE /\ holder' = t
            /\ call' = [call EXCEPT ![t].snap = inner]
            /\ pc' = [pc EXCEPT ![t] = call[t].op]
            /\ ret' = ret
    /\ UNCHANGED <<clock, inner, poisoned, lastSet, removed, cleared, loggerVars,
                   started, requestVars>>

\* self.inner.lock().map_err(..)?: waits while another task holds the guard,
\* returns Err when the lock is poisoned
TaskLock(t) ==
    /\ pc[t] = "lock"
    /\ holder = Free
    /\ IF poisoned
       THEN /\ ret' = Ret(call[t].op, call[t].key, "lockfail", "", 0, None)
            /\ TaskReturn(t)
       ELSE /\ holder' = t
            /\ call' = [call EXCEPT ![t].snap = inner]
            /\ pc' = [pc EXCEPT ![t] = call[t].op]
            /\ ret' = ret
    /\ UNCHANGED <<clock, inner, poisoned, lastSet, removed, cleared, loggerVars,
                   started, requestVars>>

\* set, lines 29-31: the expiry is computed from a reading of the clock; an
\* overflow panics and the unwinding guard poisons the lock
TaskExpiry(t) ==
    /\ pc[t] = "set"
    /\ IF call[t].ttl.some /\ AddOverflows(clock, call[t].ttl.v)
       THEN /\ poisoned' = TRUE
            /\ ret' = Ret("set", call[t].key, "panic", "", 0, call[t].ttl)
            /\ lastSet' = Restrict(lastSet, DOMAIN lastSet \ {call[t].key})
            /\ NoteSet(call[t].key)
            /\ TaskReturn(t)
       ELSE /\ call' = [call EXCEPT ![t].now = clock]
            /\ pc' = [pc EXCEPT ![t] = "insert"]
            /\ UNCHANGED <<poisoned, ret, lastSet, removed, cleared, holder>>
    /\ UNCHANGED <<clock, inner, loggerVars, started, requestVars>>

\* set, lines 33-38
TaskInsert(t) ==
    /\ pc[t] = "insert"
    /\ inner' = Insert(inner, call[t].key,
                       CacheItem(call[t].value, Expiry(call[t].now, call[t].ttl)))
    /\ ret' = Ret("set", call[t].key, "ok", "", 0, call[t].ttl)
    /\ lastSet' = Insert(lastSet, call[t].key,
                         [value |-> call[t].value, ttl |-> call[t].ttl, at |-> call[t].now,
                          over |-> Replaced(inner, call[t].key, call[t].ttl)])
    /\ NoteSet(call[t].key)
    /\ TaskReturn(t)
    /\ UNCHANGED <<clock, poisoned, loggerVars, started, requestVars>>

\* get, line 46: cleanup_expired reads the clock and sweeps
TaskSweep(t) ==
    /\ pc[t] = "get"
    /\ inner' = CleanupExpired(inner, clock)
    /\ call' = [call EXCEPT ![t].now = clock]
    /\ pc' = [pc EXCEPT ![t] = "lookup"]
    /\ UNCHANGED <<clock, poisoned, ret, lastSet, removed, cleared, loggerVars, holder,
                   started, requestVars>>

\* get, lines 48-52
TaskLookup(t) ==
    /\ pc[t] = "lookup"
    /\ ret' = IF call[t].key \in DOMAIN inner
              THEN Ret("get", call[t].key, "found", inner[call[t].key].value, 0, None)
              ELSE Ret("get", call[t].key, "notfound", "", 0, None)
    /\ TaskReturn(t)
    /\ UNCHANGED <<clock, inner, poisoned, lastSet, removed, cleared, loggerVars,
                   started, requestVars>>

\* remove, line 58
TaskRemove(t) ==
    /\ pc[t] = "remove"
    /\ inner' = Restrict(inner, DOMAIN inner \ {call[t].key})
    /\ ret' = Ret("remove", call[t].key, "removed", "",
                  IF call[t].key \in DOMAIN inner THEN 1 ELSE 0, None)
    /\ lastSet' = Restrict(lastSet, DOMAIN lastSet \ {call[t].key})
    /\ NoteRemove(call[t].key, inner)
    /\ TaskReturn(t)
    /\ UNCHANGED <<clock, poisoned, loggerVars, started, requestVars>>

\* len, line 79
TaskLen(t) ==
    /\ pc[t] = "len"
    /\ ret' = Ret("len", "", "count", "", Cardinality(DOMAIN inner), None)
    /\ TaskReturn(t)
    /\ UNCHANGED <<clock, inner, poisoned, lastSet, removed, cleared, loggerVars,
                   started, requestVars>>

\* clear, lines 85-86
TaskClear(t) ==
    /\ pc[t] = "clear"
    /\ inner' = EmptyMap
    /\ ret' = Ret("clear", "", "ok", "", 0, None)
    /\ lastSet' = <<>>
    /\ NoteClear(inner, clock)
    /\ TaskReturn(t)
    /\ UNCHANGED <<clock, poisoned, loggerVars, started, requestVars>>

\* time passes while the tasks run
TaskTick ==
    /\ clock < MaxTaskClock
    /\ clock' = clock + 1
    /\ UNCHANGED <<cacheVars, loggerVars, taskVars, requestVars>>

TaskInit ==
    /\ pc = [t \in Tasks |-> "idle"]
    /\ call = [t \in Tasks |-> NoCall]
    /\ holder = Free
    /\ started = 0

CacheTasksNext ==
    \/ \E t \in Tasks, k \in Keys, ttl \in TaskTtls : TaskCall(t, "set", k, ttl)
    \/ \E t \in Tasks, op \in {"get", "remove"}, k \in Keys : TaskCall(t, op, k, None)
    \/ \E t \in Tasks, op \in {"len", "clear"} : TaskCall(t, op, "", None)
    \/ \E t \in Tasks : TaskLock(t)
    \/ \E t \in Tasks : TaskExpiry(t)
    \/ \E t \in Tasks : TaskInsert(t)
    \/ \E t \in Tasks : TaskSweep(t)
    \/ \E t \in Tasks : TaskLookup(t)
    \/ \E t \in Tasks : TaskRemove(t)
    \/ \E t \in Tasks : TaskLen(t)
    \/ \E t \in Tasks : TaskClear(t)
    \/ TaskTick

(***************************************************************************)
(* Requests passing through ErrorHandlerMiddleware::call: a log call under *)
(* the guard of the shared logger before the inner service runs, and one   *)
(* after it when it returned an error or an error status.  JsonLogger::log *)
(* runs in three steps under the guard: the rotation check, the writeln!   *)
(* and the flush.                                                          *)
(***************************************************************************)
\* requests per behaviour
MaxRequests == 2
\* what the inner service returns: Ok(response) by status class, or Err(err)
Results == {"ok2xx", "ok4xx", "ok5xx", "err"}
\* the steps of JsonLogger::log, made while holding the guard
LogSteps == {"log_rotate", "log_write", "log_flush"}
NoReq == [phase |-> "none", level |-> INFO, size |-> 1, result |-> "none", logOk |-> TRUE]

\* where call continues after a log call: at self.service.call(req) after
\* the request record, at the return of the result after the error record
AfterLog(phase) == IF phase = "pre" THEN "service" ELSE "respond"

\* a middleware that returns the failure of its log call instead
OutcomeOfLogCall(r) == IF r.logOk THEN r.result ELSE "err"

\* what call returns (Ok(response) at line 131, Err(err) at line 156): the
\* results of the log calls were dropped by `let _ =`
Outcome(r) == r.result

\* ErrorHandlerMiddleware::call, lines 56-72: a request arrives
Request(t) ==
    /\ up
    /\ pc[t] = "idle"
    /\ started < MaxRequests
    /\ started' = started + 1
    /\ req' = [req EXCEPT ![t] = [NoReq EXCEPT !.phase = "pre"]]
    /\ pc' = [pc EXCEPT ![t] = "mw_lock"]
    /\ UNCHANGED <<clock, cacheVars, loggerVars, call, holder, logHolder,
                   logPoisoned, writerHolder, served>>

\* a logger.lock() that does not wait for the guard to be free
MwLockNoWait(t) ==
    /\ pc[t] = "mw_lock"
    /\ IF logPoisoned
       THEN pc' = [pc EXCEPT ![t] = AfterLog(req[t].phase)] /\ UNCHANGED logHolder
       ELSE pc' = [pc EXCEPT ![t] = "log_rotate"] /\ logHolder' = t
    /\ UNCHANGED <<clock, cacheVars, loggerVars, call, holder, started, req,
                   logPoisoned, writerHolder, served>>

\* if let Ok(mut logger_guard) = logger.lock() (lines 74, 120, 145): waits
\* for the guard; a poisoned lock skips the log call
MwLock(t) ==
    /\ logHolder = Free
    /\ MwLockNoWait(t)

\* a middleware whose guard of the logger lives until call returns: it is
\* still held when the inner service is called
LogStepEndsKeepingGuard(t, M, next) ==
    /\ Commit(M)
    /\ IF M.ok /\ next \in LogSteps
       THEN /\ pc' = [pc EXCEPT ![t] = next]
            /\ writerHolder' = IF next = "log_flush" THEN t ELSE Free
            /\ UNCHANGED <<hist, logHolder, req>>
       ELSE /\ hist' = Append(hist, [id |-> Len(hist) + 1, level |-> req[t].level,
                                     ok |-> M.ok, stage |-> M.stage])
            /\ logHolder' = IF req[t].phase = "pre" THEN t ELSE Free
            /\ writerHolder' = Free
            /\ req' = [req EXCEPT ![t].logOk = @ /\ M.ok]
            /\ pc' = [pc EXCEPT ![t] = AfterLog(req[t].phase)]
    /\ UNCHANGED <<clock, up, restarts, cacheVars, call, holder, started,
                   logPoisoned, served>>

\* one step of log under the guard ends in state M: the next step follows,
\* or log returns (its last step, or a failed one), the result is dropped
\* and the guard is released
LogStepEnds(t, M, next) ==
    /\ Commit(M)
    /\ IF M.ok /\ next \in LogSteps
       THEN /\ pc' = [pc EXCEPT ![t] = next]
            /\ writerHolder' = IF next = "log_flush" THEN t ELSE Free
            /\ UNCHANGED <<hist, logHolder, req>>
       ELSE /\ hist' = Append(hist, [id |-> Len(hist) + 1, level |-> req[t].level,
                                     ok |-> M.ok, stage |-> M.stage])
            /\ logHolder' = Free
            /\ writerHolder' = Free
            /\ req' = [req EXCEPT ![t].logOk = @ /\ M.ok]
            /\ pc' = [pc EXCEPT ![t] = AfterLog(req[t].phase)]
    /\ UNCHANGED <<clock, up, restarts, cacheVars, call, holder, started,
                   logPoisoned, served>>

\* the logger and its directory at a later step of the same log call
StepMachine(room) == [Machine(2, room) EXCEPT !.opened = opened]

\* the rotation check of this step replaces the writer (init_log_file, line
\* 147, under the guard of file_writer)
Reopens(level, opens, room) ==
    /\ ~Filtered(level)
    /\ CheckAndRotate(Machine(opens, room), <<clock, clock, clock>>).opened # <<>>

\* log, lines 185-190: the level filter and check_and_rotate
LogRotate(t, opens, room) ==
    /\ pc[t] = "log_rotate"
    /\ Reopens(req[t].level, opens, room) => writerHolder = Free
    /\ (opens # 2 \/ room # Unlimited) => faults < MaxFaults
    /\ IF Filtered(req[t].level)
       THEN LogStepEnds(t, [StepMachine(room) EXCEPT !.stage = "filtered"], "return")
       ELSE \E M \in {CheckAndRotate(Machine(opens, room), <<clock, clock, clock>>)} :
                LogStepEnds(t, [M EXCEPT !.stage = "rotate"], "log_write")

\* log, lines 193-209: the record is built, the guard of file_writer is
\* taken (line 208) and writeln! appends the record
LogWrite(t, room) ==
    /\ pc[t] = "log_write"
    /\ writerHolder = Free
    /\ room # Unlimited => faults < MaxFaults
    /\ LogStepEnds(t, [Writeln(StepMachine(room),
                               JsonBytes(Len(hist) + 1, clock, req[t].level, req[t].size),
                               NewlineByte(Len(hist) + 1, clock, req[t].level, req[t].size))
                          EXCEPT !.stage = "write"], "log_flush")

\* log, lines 210-213: the flush, and the return that drops the guard of
\* file_writer
LogFlush(t, room) ==
    /\ pc[t] = "log_flush"
    /\ room # Unlimited => faults < MaxFaults
    /\ LogStepEnds(t, [Flush(StepMachine(room)) EXCEPT !.stage = "write"], "return")

\* a task panics below log while it holds the guard (Local::now() and the
\* allocations of log can panic): the guard is dropped by the unwinding, the
\* lock is poisoned and the request gets no response from this task
LogPanics(t) ==
    /\ pc[t] \in LogSteps
    /\ ~logPoisoned
    /\ logPoisoned' = TRUE
    /\ logHolder' = Free
    /\ writerHolder' = Free
    /\ pc' = [pc EXCEPT ![t] = "idle"]
    /\ req' = [req EXCEPT ![t] = NoReq]
    /\ UNCHANGED <<clock, cacheVars, loggerVars, call, holder, started, served>>

\* self.service.call(req) (line 93) and the match on its result (lines
\* 99-158): an error status or an error is logged, a success is not
Service(t, result) ==
    /\ pc[t] = "service"
    /\ IF result = "ok2xx"
       THEN /\ req' = [req EXCEPT ![t].result = result]
            /\ pc' = [pc EXCEPT ![t] = "respond"]
       ELSE /\ req' = [req EXCEPT ![t].result = result,
                                  ![t].phase = "post",
                                  ![t].level = IF result = "ok4xx" THEN WARNING ELSE ERROR,
                                  ![t].size = IF result = "err" THEN BufCapacity
                                              ELSE BufCapacity - 1]
            /\ pc' = [pc EXCEPT ![t] = "mw_lock"]
    /\ UNCHANGED <<clock, cacheVars, loggerVars, call, holder, started,
                   logHolder, logPoisoned, writerHolder, served>>

\* call returns Ok(response) (line 131) or Err(err) (line 156)
Respond(t) ==
    /\ pc[t] = "respond"
    /\ served' = Append(served, [task |-> t, result |-> req[t].result,
                                 logOk |-> req[t].logOk,
                                 response |-> Outcome(req[t])])
    /\ req' = [req EXCEPT ![t] = NoReq]
    /\ pc' = [pc EXCEPT ![t] = "idle"]
    /\ UNCHANGED <<clock, cacheVars, loggerVars, call, holder, started,
                   logHolder, logPoisoned, writerHolder>>

RequestInit ==
    /\ req = [t \in Tasks |-> NoReq]
    /\ logHolder = Free
    /\ logPoisoned = FALSE
    /\ writerHolder = Free
    /\ served = <<>>

RequestsNext ==
    \/ \E t \in Tasks : Request(t)
    \/ \E t \in Tasks : MwLock(t)
    \/ \E t \in Tasks, opens \in Opens, room \in Rooms : LogRotate(t, opens, room)
    \/ \E t \in Tasks, room \in Rooms : LogWrite(t, room)
    \/ \E t \in Tasks, room \in Rooms : LogFlush(t, room)
    \/ \E t \in Tasks : LogPanics(t)
    \/ \E t \in Tasks, result \in Results : Service(t, result)
    \/ \E t \in Tasks : Respond(t)
    \/ TaskTick

CacheInit ==
    /\ inner = EmptyMap
    /\ poisoned = FALSE
    /\ ret = [op |-> "new", key |-> "", kind |-> "ok", val |-> "", n |-> 0,
              ttl |-> None, at |-> 0]
    /\ lastSet = <<>>
    /\ removed = <<>>
    /\ cleared = "no"

\* the logger main builds at start-up, at instant 0 on an empty log directory
FirstLogger ==
    New([current_date |-> 0, current_file_index |-> 0,
         file_writer |-> NoWriter, disk |-> <<>>, opened |-> <<>>,
         opens |-> 1, room |-> Unlimited, fault |-> FALSE, ok |-> TRUE,
         stage |-> "none"], TRUE, <<0, 0>>)

LoggerInit ==
    /\ up = FirstLogger.ok
    /\ current_date = FirstLogger.current_date
    /\ current_file_index = FirstLogger.current_file_index
    /\ file_writer = FirstLogger.file_writer
    /\ disk = FirstLogger.disk
    /\ opened = FirstLogger.opened
    /\ hist = <<>>
    /\ faults = 0
    /\ restarts = 0

vars == <<clock, cacheVars, loggerVars, taskVars, requestVars>>

Init ==
    /\ clock = 0
    /\ CacheInit
    /\ LoggerInit
    /\ TaskInit
    /\ RequestInit

CacheNext ==
    \/ \E k \in Keys, v \in Values, ttl \in Ttls : Set(k, v, ttl)
    \/ \E k \in Keys : Get(k)
    \/ \E k \in Keys : Remove(k)
    \/ CacheLen
    \/ Clear
    \/ Tick

LoggerNext ==
    \/ \E level \in Levels, size \in Sizes, p \in 0..4,
          opens \in Opens, room \in Rooms : Log(level, size, p, opens, room)
    \/ \E graceful \in BOOLEAN, dirOk \in BOOLEAN, p \in 0..2,
          opens \in Opens, room \in Rooms : Restart(graceful, dirOk, p, opens, room)
    \/ LoggerTick

\* what one task does in the running server: a cache operation of a handler
\* of cache_routes, or the error-handling middleware around the inner service
CacheStep(t) ==
    \/ \E ttl \in {None, Some(U64Max)} : TaskCall(t, "set", "a", ttl)
    \/ \E op \in {"get", "remove"} : TaskCall(t, op, "a", None)
    \/ \E op \in {"len", "clear"} : TaskCall(t, op, "", None)
    \/ TaskExpiry(t)
    \/ TaskInsert(t)
    \/ TaskSweep(t)
    \/ TaskLookup(t)
    \/ TaskRemove(t)
    \/ TaskLen(t)
    \/ TaskClear(t)

\* the file operations of a step all succeed or all fail
LoggerStep(t) ==
    \/ \E opens \in {0, 2}, room \in {0, Unlimited} : LogRotate(t, opens, room)
    \/ \E room \in {0, Unlimited} : LogWrite(t, room)
    \/ \E room \in {0, Unlimited} : LogFlush(t, room)

MiddlewareStep(t) ==
    \/ Request(t)
    \/ \E result \in {"ok2xx", "err"} : Service(t, result)
    \/ Respond(t)

\* the running server: tasks in the handlers of cache_routes and tasks in the
\* error-handling middleware, at one instant (no step of a task depends on
\* the instant: the entries never expire or overflow at once, the date does
\* not change)
ServerNext ==
    \/ \E t \in Tasks : CacheStep(t) \/ TaskLock(t)
    \/ \E t \in Tasks : MiddlewareStep(t) \/ MwLock(t)
    \/ \E t \in Tasks : LoggerStep(t) \/ LogPanics(t)

\* main from the construction of the logger on: its start-up records, then
\* the records of the running server
MainNext ==
    \/ \E level \in {INFO, ERROR}, size \in Sizes, p \in 0..4,
          opens \in Opens, room \in Rooms : MainLog(level, size, p, opens, room)
    \/ \E level \in Levels \cup {WARNING, ERROR}, size \in Sizes, p \in 0..4,
          opens \in Opens, room \in Rooms : ServedLog(level, size, p, opens, room)
    \/ LoggerTick

Next ==
    CacheNext \/ LoggerNext \/ CacheTasksNext \/ RequestsNext \/ ServerNext \/ MainNext

\* the cache alone, the logger alone, and both
SpecCache == Init /\ [][CacheNext]_vars
SpecLogger == Init /\ [][LoggerNext]_vars
SpecCacheTasks == Init /\ [][CacheTasksNext]_vars
SpecRequests == Init /\ [][RequestsNext]_vars
SpecServer == Init /\ [][ServerNext]_vars
\* the same on a runtime that keeps running every task and with fair locks: a
\* task that is not waiting for a lock takes its next step, and a task
\* waiting for a lock that is free again and again gets it
FairServer ==
    /\ SpecServer
    /\ \A t \in Tasks :
          /\ WF_vars(CacheStep(t) /\ pc[t] # "idle")
          /\ WF_vars(LoggerStep(t))
          /\ WF_vars(MiddlewareStep(t) /\ pc[t] # "idle")
          /\ SF_vars(TaskLock(t))
          /\ SF_vars(MwLock(t))
SpecMain == Init /\ [][MainNext]_vars
Spec == Init /\ [][Next]_vars

(***************************************************************************)
(* Claims about SimpleCache (checked under SpecCache)                      *)
(***************************************************************************)
\* a get(k) step that acquired the lock
GetRan(k) == ~poisoned /\ Get(k)

\* expiry is none or strictly later than the instant now
StrictlyLive(item, now) == ~item.expiry.some \/ item.expiry.v > now

\* C1: a get never returns found for an entry unless its expiry is none or
\* strictly later than the instant of the get; the sweep run by get drops
\* every entry whose expiry is earlier than or equal to that instant and keeps
\* every entry whose expiry is none or strictly later.
C1_GetSeesOnlyStrictlyLive ==
    [][\A k \in Keys : GetRan(k) =>
          /\ \A x \in DOMAIN inner :
                (x \in DOMAIN inner') <=> StrictlyLive(inner[x], clock)
          /\ ret'.kind = "found" => StrictlyLive(inner[k], clock)]_vars

\* C2: set(k, v, ttl=0) followed by get(k), with no other cache call in
\* between, returns not-found at every clock reading of the get (the instant
\* of the set or any later one).
C2_ZeroTtlNeverVisible ==
    [][\A k \in Keys :
          (/\ ret.op = "set" /\ ret.kind = "ok" /\ ret.key = k
           /\ ret.ttl = Some(0)
           /\ Get(k)) => ret'.kind = "notfound"]_vars

\* C3: after set(k, v, none), every later get(k) returns found(v), at any
\* clock value and after any number of sweeps, as long as no set(k, ..),
\* remove(k) or clear() happened in between.
C3_NoTtlAlwaysFound ==
    [][\A k \in Keys :
          (/\ k \in DOMAIN lastSet
           /\ ~lastSet[k].ttl.some
           /\ Get(k)) => (ret'.kind = "found" /\ ret'.val = lastSet[k].value)]_vars

\* C3, restricted to a cache whose lock is not poisoned: the sweep never
\* drops an entry without a ttl (the part of C3 the code does satisfy).
NoTtlFoundWhileHealthy ==
    [][\A k \in Keys :
          (/\ k \in DOMAIN lastSet
           /\ ~lastSet[k].ttl.some
           /\ GetRan(k)) => (ret'.kind = "found" /\ ret'.val = lastSet[k].value)]_vars

\* C4: for an entry set at instant s with ttl t > 0 and not touched since,
\* every get(k) strictly before s + t returns found(v) and every get(k)
\* strictly after s + t returns not-found; the entry leaves the store only
\* as the effect of a get, remove, set or clear.
C4_TtlWindow ==
    /\ [][\A k \in Keys :
            (/\ k \in DOMAIN lastSet
             /\ lastSet[k].ttl.some /\ lastSet[k].ttl.v > 0
             /\ Get(k)) =>
                LET e == lastSet[k].at + lastSet[k].ttl.v
                IN /\ clock < e => (ret'.kind = "found" /\ ret'.val = lastSet[k].value)
                   /\ clock > e => ret'.kind = "notfound"]_vars
    /\ [][inner' # inner =>
            (\/ \E k \in Keys : Get(k) \/ Remove(k)
             \/ \E k \in Keys, v \in Values, ttl \in Ttls : Set(k, v, ttl)
             \/ Clear)]_vars

\* C4, restricted to a cache whose lock is not poisoned.
TtlWindowWhileHealthy ==
    /\ [][\A k \in Keys :
            (/\ k \in DOMAIN lastSet
             /\ lastSet[k].ttl.some /\ lastSet[k].ttl.v > 0
             /\ GetRan(k)) =>
                LET e == lastSet[k].at + lastSet[k].ttl.v
                IN /\ clock < e => (ret'.kind = "found" /\ ret'.val = lastSet[k].value)
                   /\ clock > e => ret'.kind = "notfound"]_vars
    /\ [][inner' # inner =>
            (\/ \E k \in Keys : Get(k) \/ Remove(k)
             \/ \E k \in Keys, v \in Values, ttl \in Ttls : Set(k, v, ttl)
             \/ Clear)]_vars

\* this step is a call of one of the five cache operations
CacheCall ==
    \/ \E k \in Keys, v \in Values, ttl \in Ttls : Set(k, v, ttl)
    \/ \E k \in Keys : Get(k) \/ Remove(k)
    \/ CacheLen
    \/ Clear

\* C12: once the cache lock is poisoned it stays poisoned, the store is never
\* changed again, and every set, get, remove, len and clear returns lock-failure.
C12_PoisonedCacheFailsForever ==
    [][poisoned =>
          /\ poisoned'
          /\ inner' = inner
          /\ CacheCall => ret'.kind = "lockfail"]_vars

\* a get has returned lock-failure on a poisoned cache that holds an entry for
\* its key
C12_Witness ==
    /\ poisoned
    /\ ret.op = "get" /\ ret.kind = "lockfail"
    /\ ret.key \in DOMAIN inner

\* C13: for every ttl a set request can carry, set on a cache whose lock is
\* not poisoned returns success, stores expiry = now + ttl (none without a
\* ttl), and leaves the lock unpoisoned.
C13_SetNeverPoisons ==
    [][\A k \in Keys, v \in Values, ttl \in Ttls :
          (~poisoned /\ Set(k, v, ttl)) =>
              /\ ret'.kind = "ok"
              /\ ~poisoned'
              /\ k \in DOMAIN inner'
              /\ inner'[k] = CacheItem(v, Expiry(clock, ttl))]_vars

(***************************************************************************)
\* a set(k, v, ttl) step that acquired the lock and returned
SetRan(k, v, ttl) == ~poisoned /\ Set(k, v, ttl) /\ ret'.kind = "ok"

\* what a get(k) must return for the entry of the last set of k: found(value)
\* without a ttl and before set instant + ttl, not-found after it
AnswersLastSet(k) ==
    LET s == lastSet[k]
    IN IF ~s.ttl.some
       THEN ret'.kind = "found" /\ ret'.val = s.value
       ELSE /\ clock < s.at + s.ttl.v => (ret'.kind = "found" /\ ret'.val = s.value)
            /\ clock > s.at + s.ttl.v => ret'.kind = "notfound"

\* the last set of k replaced an entry whose expiry was of the other kind
\* (set(k, v1, ttl) then set(k, v2, none), or set(k, v1, none) then set(k, v2, t))
ReplacedOtherKind(k) ==
    /\ k \in DOMAIN lastSet
    /\ lastSet[k].over

\* C17: a set on an existing key replaces both the value and the expiry:
\* after set(k, v1, ttl) then set(k, v2, none) every later get(k) returns
\* found(v2); after set(k, v1, none) then set(k, v2, t) at instant s a get(k)
\* returns found(v2) before s + t and not-found after s + t; the earlier value
\* and expiry have no remaining effect.
C17_SetReplacesValueAndExpiry ==
    /\ [][\A k \in Keys, v \in Values, ttl \in Ttls :
            (k \in DOMAIN inner /\ SetRan(k, v, ttl)) =>
                inner' = Insert(inner, k, CacheItem(v, Expiry(clock, ttl)))]_vars
    /\ [][\A k \in Keys : (ReplacedOtherKind(k) /\ Get(k)) => AnswersLastSet(k)]_vars

\* C17, restricted to a cache whose lock is not poisoned.
SetReplacesWhileHealthy ==
    /\ [][\A k \in Keys, v \in Values, ttl \in Ttls :
            (k \in DOMAIN inner /\ SetRan(k, v, ttl)) =>
                inner' = Insert(inner, k, CacheItem(v, Expiry(clock, ttl)))]_vars
    /\ [][\A k \in Keys : (ReplacedOtherKind(k) /\ GetRan(k)) => AnswersLastSet(k)]_vars

\* a get has answered from an entry set over one of the other kind after the
\* replaced entry's expiry had passed
SetReplacesSeen ==
    /\ ret.op = "get" /\ ret.kind = "found"
    /\ ReplacedOtherKind(ret.key)
    /\ ~lastSet[ret.key].ttl.some
    /\ ret.at > lastSet[ret.key].at + 1

\* a remove(k) step that acquired the lock
RemoveRan(k) == ~poisoned /\ Remove(k)

\* remove(k) reports whether k had an entry and deletes that entry alone
RemoveDeletesItsEntry ==
    [][\A k \in Keys : RemoveRan(k) =>
          /\ ret'.kind = "removed"
          /\ ret'.n = (IF k \in DOMAIN inner THEN 1 ELSE 0)
          /\ inner' = Restrict(inner, DOMAIN inner \ {k})
          /\ k \notin DOMAIN inner => inner' = inner]_vars

\* C18: remove(k) returns removed(false) and leaves the store unchanged when
\* k has no entry; when k has an entry it returns removed(true), deletes only
\* that entry, and a following get(k) returns not-found until k is set again.
C18_RemoveThenNotFound ==
    /\ RemoveDeletesItsEntry
    /\ [][\A k \in DOMAIN removed : Get(k) => ret'.kind = "notfound"]_vars

\* C18, restricted to a cache whose lock is not poisoned.
RemoveThenNotFoundWhileHealthy ==
    /\ RemoveDeletesItsEntry
    /\ [][\A k \in DOMAIN removed : GetRan(k) => ret'.kind = "notfound"]_vars

\* a get of a removed key has returned not-found while the other key's entry
\* is still in the store
RemoveThenNotFoundSeen ==
    /\ ret.op = "get" /\ ret.kind = "notfound"
    /\ ret.key \in DOMAIN removed
    /\ DOMAIN inner # {}

\* a clear() step that acquired the lock
ClearRan == ~poisoned /\ Clear

\* C19: for any store contents, expired or not, clear() removes every entry,
\* so a len() that follows with no set in between returns 0 and every get
\* that follows with no set in between returns not-found.
C19_ClearEmptiesStore ==
    /\ [][ClearRan => (inner' = EmptyMap /\ ret'.kind = "ok")]_vars
    /\ [][(cleared # "no" /\ CacheLen) => (ret'.kind = "count" /\ ret'.n = 0)]_vars
    /\ [][\A k \in Keys : (cleared # "no" /\ Get(k)) => ret'.kind = "notfound"]_vars

\* a len has returned 0 after a clear of a store that held an entry whose
\* expiry had passed
C19_Witness ==
    /\ cleared = "expired"
    /\ ret.op = "len" /\ ret.kind = "count" /\ ret.n = 0

\* the entry of x is in the store after the step as it was before
Kept(x) == x \in DOMAIN inner' /\ inner'[x] = inner[x]

\* the expiry of the entry has passed at the instant now
Expired(item, now) == item.expiry.some /\ item.expiry.v < now

\* C20: only get runs the expiry sweep: set, remove and len never remove an
\* entry because it is expired (set and remove leave every entry of another
\* key as it is, len and the passing of time leave the whole store as it is);
\* an entry whose expiry has passed stays in the store, and is counted by
\* len, until a get, a remove or set of its key, or a clear happens.
C20_OnlyGetSweeps ==
    /\ [][\A k \in Keys :
            ((\E v \in Values, ttl \in Ttls : Set(k, v, ttl)) \/ Remove(k)) =>
                \A x \in DOMAIN inner \ {k} : Kept(x)]_vars
    /\ [][(CacheLen \/ Tick) => inner' = inner]_vars
    /\ [][\A x \in DOMAIN inner :
            ~Kept(x) => (\/ \E k \in Keys : Get(k)
                         \/ Remove(x)
                         \/ \E v \in Values, ttl \in Ttls : Set(x, v, ttl)
                         \/ Clear)]_vars
    /\ [][(CacheLen /\ ret'.kind = "count") => ret'.n = Cardinality(DOMAIN inner)]_vars

\* a len has counted two entries, one whose expiry had passed before the
\* other was set
C20_Witness ==
    /\ ret.op = "len" /\ ret.kind = "count" /\ ret.n = 2
    /\ \E x, y \in DOMAIN inner :
          /\ Expired(inner[x], ret.at)
          /\ y \in DOMAIN lastSet
          /\ inner[x].expiry.v < lastSet[y].at

\* a get(k) step that returned found or not-found
GetSucceeded(k) == Get(k) /\ ret'.kind \in {"found", "notfound"}

\* C21: after any successful get(k), for every key in the store and not only
\* k, the store holds no entry whose expiry is earlier than the instant of
\* that get, and every entry that was unexpired before the get is still
\* present with the same value and expiry.
C21_SweepIsGlobal ==
    [][\A k \in Keys : GetSucceeded(k) =>
          /\ \A x \in DOMAIN inner' : ~Expired(inner'[x], clock)
          /\ \A x \in DOMAIN inner : ~Expired(inner[x], clock) => Kept(x)]_vars

\* a get of one key has returned with the expired entry of the other key
\* gone from the store and its own unexpired entry still there
C21_Witness ==
    /\ ret.op = "get" /\ ret.kind = "found"
    /\ \E x \in DOMAIN lastSet :
          /\ x # ret.key
          /\ x \notin DOMAIN inner
          /\ lastSet[x].ttl.some
          /\ lastSet[x].at + lastSet[x].ttl.v < ret.at
    /\ inner[ret.key].expiry.some

\* C30: remove(k) on an entry whose expiry has passed but which no get has
\* swept yet returns removed(true) and deletes it, while a get(k) at that same
\* instant returns not-found: remove decides on physical presence in the
\* store, not on expiry.
C30_RemoveIgnoresExpiry ==
    [][\A k \in DOMAIN inner :
          (~poisoned /\ Expired(inner[k], clock)) =>
              /\ Remove(k) => (/\ ret'.kind = "removed" /\ ret'.n = 1
                               /\ inner' = Restrict(inner, DOMAIN inner \ {k}))
              /\ Get(k) => ret'.kind = "notfound"]_vars

\* a remove has returned removed(true) for an entry whose expiry had passed
C30_Witness ==
    /\ ret.op = "remove" /\ ret.kind = "removed" /\ ret.n = 1
    /\ ret.key \in DOMAIN removed
    /\ removed[ret.key]

(* Claims about the concurrent callers of SimpleCache (SpecCacheTasks)     *)
(***************************************************************************)
\* the lines of the cache operations at which the caller holds the guard
Critical == {"set", "insert", "get", "lookup", "remove", "len", "clear"}

\* the store after the call c has run alone on the store c.snap, reading the
\* clock as c.now
SeqStore(c) ==
    CASE c.op = "set" -> Insert(c.snap, c.key, CacheItem(c.value, Expiry(c.now, c.ttl)))
      [] c.op = "get" -> CleanupExpired(c.snap, c.now)
      [] c.op = "remove" -> Restrict(c.snap, DOMAIN c.snap \ {c.key})
      [] c.op = "len" -> c.snap
      [] c.op = "clear" -> EmptyMap

\* what the call c returns when it has run alone on the store c.snap:
\* <<kind, value, number>>
SeqResult(c) ==
    CASE c.op = "set" -> <<"ok", "", 0>>
      [] c.op = "get" ->
            IF c.key \in DOMAIN CleanupExpired(c.snap, c.now)
            THEN <<"found", c.snap[c.key].value, 0>>
            ELSE <<"notfound", "", 0>>
      [] c.op = "remove" -> <<"removed", "", IF c.key \in DOMAIN c.snap THEN 1 ELSE 0>>
      [] c.op = "len" -> <<"count", "", Cardinality(DOMAIN c.snap)>>
      [] c.op = "clear" -> <<"ok", "", 0>>

\* the task t returns from an operation it held the guard in
TaskReturns(t) == pc[t] \in Critical /\ pc'[t] = "idle"

\* C14: whatever the interleaving of the tasks, every set, get, remove, len
\* and clear returns the result, and leaves the store, that the same call gives
\* when run alone on the store it found when it acquired the lock (a panicking
\* set leaves that store as it was); the store changes only in steps of the
\* task holding the guard, and between the sweep and the lookup of a get the
\* store is the swept store the get found.
C14_CallsAreSerialized ==
    /\ [][\A t \in Tasks : TaskReturns(t) =>
             IF ret'.kind = "panic"
             THEN inner' = call[t].snap
             ELSE /\ inner' = SeqStore(call[t])
                  /\ <<ret'.kind, ret'.val, ret'.n>> = SeqResult(call[t])]_vars
    /\ [][inner' # inner => (holder # Free /\ pc[holder] \in Critical)]_vars
    /\ [](\A t \in Tasks :
             pc[t] = "lookup" => inner = CleanupExpired(call[t].snap, call[t].now))

\* a get holds the guard between its sweep and its lookup while the other task
\* waits for the lock with a set of the same key
C14_Witness ==
    \E t, u \in Tasks :
        /\ pc[t] = "lookup"
        /\ pc[u] = "lock"
        /\ call[u].op = "set"
        /\ call[u].key = call[t].key
        /\ call[t].key \in DOMAIN inner

(***************************************************************************)
(* Claims about JsonLogger (checked under SpecLogger)                      *)
(***************************************************************************)
\* this step is a log call; its record carries the id CallId
LogStep == Len(hist') = Len(hist) + 1
CallId == Len(hist) + 1
\* this step is a restart
RestartStep == restarts' # restarts
\* the level is at or above the minimum level
AtOrAboveMin(level) == level >= MinLevel
\* the log call of this step was at or above the minimum level / returned Ok
Passed == AtOrAboveMin(hist'[CallId].level)
ReturnedOk == hist'[CallId].ok
\* the size threshold in bytes
Threshold == MaxFileSizeMb * BytesPerMb
\* the whole call of this step ran on the calendar date d
RanOn(d) == FormatDate(clock) = d /\ FormatDate(clock') = d

IsPrefix(s, t) == Len(s) <= Len(t) /\ SubSeq(t, 1, Len(s)) = s
IsSuffix(s, t) == Len(s) <= Len(t) /\ SubSeq(t, Len(t) - Len(s) + 1, Len(t)) = s
\* where the bytes of record id lie: the set of <<file, position>>
Placed(id, d) ==
    UNION {{<<n, i>> : i \in {j \in DOMAIN d[n] : d[n][j].id = id}} : n \in DOMAIN d}
\* the files holding bytes of record id
FilesHolding(id, d) == {pl[1] : pl \in Placed(id, d)}
\* the indices of the files of date on the disk d
IndicesOf(date, d) == {n.index : n \in {m \in DOMAIN d : m.date = date}}

\* C5: a log call at or above the minimum level that finds the active file of
\* the current date at or above the size threshold writes its record to the
\* file of that date whose index is one greater than the previously active
\* index; the indices used for one date only grow, an index that was left is
\* never written again. (Stated for the calls before which no file operation
\* has failed, where the active file is the one the writer is attached to.)
C5_RotationAdvancesIndex ==
    [][(LogStep /\ Passed /\ ReturnedOk /\ RanOn(current_date) /\ faults = 0) =>
          LET active == FileName(current_date, "-", current_file_index)
          IN /\ (active \in DOMAIN disk /\ Len(disk[active]) >= Threshold) =>
                    FilesHolding(CallId, disk') =
                        {FileName(current_date, "-", current_file_index + 1)}
             /\ \A n \in FilesHolding(CallId, disk') :
                    n.date = current_date => n.index >= current_file_index]_vars

\* C6: whenever the logger opens a file and files with indices 0..n exist for
\* the target date, it opens index n when that file is below the size
\* threshold and index n+1 when it is at or above it; it never opens an index
\* lower than the highest existing one. (Stated for the first file a call
\* opens, before which no file operation has failed: the directory it scans
\* is the one the call started with.)
C6_OpensHighestIndex ==
    [][((LogStep \/ RestartStep) /\ Len(opened') >= 1 /\ faults = 0) =>
          LET path == opened'[1]
              existing == IndicesOf(path.date, disk)
          IN existing # {} =>
                LET n == SetMax(existing)
                IN (existing = 0..n) =>
                      /\ path.index >= n
                      /\ path.index =
                            IF Len(disk[FileName(path.date, "-", n)]) < Threshold
                            THEN n ELSE n + 1]_vars

\* the first half of C7: the log call that meets a changed date
DateChangeCall ==
    \A d \in 0..FormatDate(MaxLogClock) :
        (LogStep /\ Passed /\ ReturnedOk /\ RanOn(d) /\ current_date # d) =>
            /\ current_date' = d
            /\ \E n \in DOMAIN disk' :
                  /\ FilesHolding(CallId, disk') = {n}
                  /\ n.date = d
                  /\ IndicesOf(d, disk) = {} => n.index = 0

\* C7: when the calendar date has changed between two log calls, the first
\* following log call at or above the minimum level writes its record into a
\* file named with the new date (index 0 when no file of that date exists) and
\* leaves the recorded date equal to the new date; no later record is written
\* into a file of an older date than the recorded one.
C7_DateRollover ==
    /\ [][DateChangeCall]_vars
    /\ [][LogStep => \A n \in FilesHolding(CallId, disk') : n.date >= current_date]_vars

\* C7 in the behaviours where no file operation has failed
DateRolloverWithoutFaults ==
    /\ [][DateChangeCall]_vars
    /\ [][(LogStep /\ faults = 0) =>
            \A n \in FilesHolding(CallId, disk') : n.date >= current_date]_vars

\* C8: whenever a log call at or above the minimum level returns success, its
\* complete serialized record followed by a newline has been appended to the
\* file the writer is attached to, and the writer's buffer holds no unflushed
\* bytes.
C8_SuccessMeansWritten ==
    [][(LogStep /\ Passed /\ ReturnedOk) =>
          LET w == file_writer'
              before == IF w.path \in DOMAIN disk THEN disk[w.path] ELSE <<>>
          IN /\ w.some
             /\ w.buf = <<>>
             /\ IsPrefix(before, disk'[w.path])
             /\ \E size \in Sizes, ts \in clock..clock' :
                   /\ IsSuffix(RecordBytes(CallId, ts, hist'[CallId].level, size),
                               disk'[w.path])
                   /\ Len(disk'[w.path]) >= Len(before) + size + 1]_vars

\* a successful call at or above the minimum level has happened after a failed
\* one, and its record ends the file the writer is attached to
C8_Witness ==
    /\ Len(hist) >= 2
    /\ ~hist[Len(hist) - 1].ok
    /\ hist[Len(hist)].ok /\ AtOrAboveMin(hist[Len(hist)].level)
    /\ file_writer.some
    /\ Len(disk[file_writer.path]) >= 2
    /\ disk[file_writer.path][Len(disk[file_writer.path])].id = Len(hist)
    /\ disk[file_writer.path][Len(disk[file_writer.path])].k = 0

\* the calls that returned io-failure from the write or the flush
FailedWrites == {f \in 1..Len(hist) : ~hist[f].ok /\ hist[f].stage = "write"}

\* C9: a record whose log call returned io-failure because the write or the
\* flush failed is never written to any log file by a later call: the next
\* successful call appends its own line and nothing left over.
C9_FailedRecordNeverWritten ==
    [][(LogStep /\ ReturnedOk) => \A f \in FailedWrites : Placed(f, disk') = Placed(f, disk)]_vars

\* the line of record id lies in file n from position i on
LineAt(id, n, i) ==
    /\ i \in DOMAIN disk[n]
    /\ LET size == disk[n][i].of
       IN /\ i + size <= Len(disk[n])
          /\ SubSeq(disk[n], i, i + size) =
                 RecordBytes(id, disk[n][i].ts, hist[id].level, size)
          /\ Placed(id, disk) = {<<n, j>> : j \in i..(i + size)}
\* the timestamp written into the record id
TimestampOf(id) == (CHOOSE b \in UNION {{disk[n][i] : i \in DOMAIN disk[n]} : n \in DOMAIN disk} : b.id = id).ts

\* C10: with no I/O failure, every log call at or above the minimum level
\* has contributed exactly one line and every other call none, so the number of
\* lines equals the number of such calls; the lines of a file are in call order
\* and the timestamps do not decrease from call to call.
C10_OneLinePerCall ==
    faults = 0 =>
        /\ \A id \in 1..Len(hist) :
              IF AtOrAboveMin(hist[id].level)
              THEN \E n \in DOMAIN disk : \E i \in DOMAIN disk[n] : LineAt(id, n, i)
              ELSE Placed(id, disk) = {}
        /\ \A n \in DOMAIN disk : \A i \in DOMAIN disk[n] :
              /\ disk[n][i].id \in 1..Len(hist)
              /\ \A j \in DOMAIN disk[n] : i <= j => disk[n][i].id <= disk[n][j].id
        /\ \A a, b \in 1..Len(hist) :
              (a <= b /\ AtOrAboveMin(hist[a].level) /\ AtOrAboveMin(hist[b].level))
                  => TimestampOf(a) <= TimestampOf(b)

\* three calls without failure, one below the minimum level, the two records
\* in two files after a rotation
C10_Witness ==
    /\ faults = 0
    /\ Len(hist) = 3
    /\ \E id \in 1..3 : ~AtOrAboveMin(hist[id].level)
    /\ \E a, b \in 1..3 :
          /\ a < b
          /\ Placed(a, disk) # {} /\ Placed(b, disk) # {}
          /\ FilesHolding(a, disk) # FilesHolding(b, disk)

\* C11: a log call whose level is strictly below the minimum level returns
\* success and changes nothing: no byte reaches any file or the buffer, no file
\* is opened or created, the recorded date and index and the writer stay as
\* they were, also when the date has changed or the active file is at the size
\* threshold.
C11_FilteredCallChangesNothing ==
    [][(LogStep /\ ~Passed) =>
          /\ ReturnedOk
          /\ disk' = disk
          /\ file_writer' = file_writer
          /\ current_date' = current_date
          /\ current_file_index' = current_file_index
          /\ opened' = <<>>]_vars

\* a call below the minimum level has just returned although the date has
\* changed and the active file is at the size threshold
C11_Witness ==
    /\ Len(hist) >= 1
    /\ ~AtOrAboveMin(hist[Len(hist)].level)
    /\ hist[Len(hist)].ok
    /\ FormatDate(clock) # current_date
    /\ Len(disk[FileName(current_date, "-", current_file_index)]) >= Threshold

(***************************************************************************)
\* the dates the wall clock of the logger can show
Dates == 0..FormatDate(MaxLogClock)
\* the file of date d with index i exists
Exists(d, i) == FileName(d, "-", i) \in DOMAIN disk
\* the index-0 file of date d has reached the size threshold
Index0Full(d) == Exists(d, 0) /\ Len(disk[FileName(d, "-", 0)]) >= Threshold

\* C22: once the index-0 file of a date has reached the size threshold and a
\* log call has rotated (it opened a file of that date), a file with index 1
\* exists for the same date, and no later log call appends to the index-0 file
\* of that date, for any number of further writes.
C22_NoWritesBehindRotation ==
    /\ [][\A d \in Dates :
            (/\ LogStep
             /\ Index0Full(d)
             /\ \E i \in DOMAIN opened' : opened'[i].date = d)
                => FileName(d, "-", 1) \in DOMAIN disk']_vars
    /\ [][\A d \in Dates :
            (Index0Full(d) /\ Exists(d, 1)) =>
                /\ Exists(d, 1)'
                /\ disk'[FileName(d, "-", 0)] = disk[FileName(d, "-", 0)]]_vars

\* three records have been logged, the first filled the index-0 file and the
\* two after the rotation are in the index-1 file of the same date
C22_Witness ==
    /\ Len(hist) = 3
    /\ \E d \in Dates :
          /\ Index0Full(d) /\ Exists(d, 1)
          /\ FilesHolding(1, disk) = {FileName(d, "-", 0)}
          /\ FilesHolding(2, disk) = {FileName(d, "-", 1)}
          /\ FilesHolding(3, disk) = {FileName(d, "-", 1)}

\* C23: no logger operation (construction, restart, size rotation,
\* date-change re-open, write) truncates, overwrites or deletes existing log
\* content: every log file stays, and its content before any step is a prefix
\* of its content after it, also when a second logger is constructed on the
\* same directory.
C23_AppendOnly ==
    [][\A n \in DOMAIN disk :
          /\ n \in DOMAIN disk'
          /\ IsPrefix(disk[n], disk'[n])]_vars

\* a second logger has been constructed on the directory and has opened a file
\* that held the complete line of an earlier record, which is still there
C23_Witness ==
    /\ restarts = 1
    /\ up
    /\ Len(opened) = 1
    /\ \E i \in DOMAIN disk[opened[1]] : LineAt(1, opened[1], i)

\* the open writer is attached to an existing file
WriterOpen(w, d) == w.some /\ w.path \in DOMAIN d

\* C24: logger construction returns an error and yields no logger when the
\* log directory cannot be created or the initial log file cannot be opened;
\* when construction succeeds, a writer is open on a file of the log directory
\* named with today's date, and the writer stays present for the logger's
\* whole lifetime.
C24_ConstructionAllOrNothing ==
    /\ [][\A graceful \in BOOLEAN, dirOk \in BOOLEAN, p \in 0..2,
             opens \in Opens, room \in Rooms :
            Restart(graceful, dirOk, p, opens, room) =>
                /\ up' = (dirOk /\ opens >= 1)
                /\ ~up' => ~file_writer'.some
                /\ up' => (/\ WriterOpen(file_writer', disk')
                           /\ file_writer'.path.date = FormatDate(clock'))]_vars
    /\ [](up => WriterOpen(file_writer, disk))

\* a second construction on a directory that holds records has failed
C24_Witness ==
    /\ restarts = 1
    /\ ~up
    /\ ~file_writer.some
    /\ Len(hist) >= 1

\* the longest record: a JSON text that fills the buffer, and its newline
MaxRecordLen == BufCapacity + 1

\* C26: no record is appended to a file whose size was at or above the size
\* threshold when the rotation check of that log call ran; therefore, for any
\* number of log calls, every log file stays smaller than the threshold plus
\* the length of one record.
C26_FullFilesAreLeft ==
    /\ [][LogStep =>
            \A n \in DOMAIN disk :
                Len(disk[n]) >= Threshold => disk'[n] = disk[n]]_vars
    /\ [](\A n \in DOMAIN disk : Len(disk[n]) < Threshold + MaxRecordLen)

\* the file the logger's recorded date and index name, after a step
RecordedFile == FileName(current_date', "-", current_file_index')

\* a log call that returned the failure of its rotation check
FailedRotation == LogStep /\ ~ReturnedOk /\ hist'[CallId].stage = "rotate"

\* C27: after every log call, successful or not, the open writer is attached
\* to the file named by the logger's recorded date and index; a rotation or
\* date-change re-open that fails to open the new file leaves the recorded date
\* and index as they were before the call; so no later record is written into a
\* file other than the one the recorded date and index name.
C27_WriterOnRecordedFile ==
    /\ [][LogStep => file_writer'.some /\ file_writer'.path = RecordedFile]_vars
    /\ [][FailedRotation =>
              /\ current_date' = current_date
              /\ current_file_index' = current_file_index]_vars
    /\ [][LogStep => \A n \in FilesHolding(CallId, disk') : n = RecordedFile]_vars

\* the same without a failed file operation
WriterOnRecordedFileWithoutFaults ==
    [][LogStep /\ faults' = 0 =>
          /\ file_writer'.some /\ file_writer'.path = RecordedFile
          /\ \A n \in FilesHolding(CallId, disk') : n = RecordedFile]_vars

\* C28: every persisted record lies in a file whose name carries the calendar
\* date of the record's own timestamp: the date the rotation check used to
\* select the file and the date of the timestamp written into the record are
\* the same for every log call, also for a call that runs across midnight.
C28_RecordDateIsFileDate ==
    \A n \in DOMAIN disk :
        \A i \in DOMAIN disk[n] : FormatDate(disk[n][i].ts) = n.date

\* the same for the log calls during which the date does not change, in the
\* behaviours without a failed file operation
RecordDateIsFileDateWithinOneDay ==
    [][\A d \in Dates :
           (LogStep /\ faults' = 0 /\ RanOn(d)) =>
               \A n \in FilesHolding(CallId, disk') : n.date = d]_vars

(* Claims about the requests served through the middleware (SpecRequests)  *)
(***************************************************************************)
\* the tasks inside JsonLogger::log
InLog == {t \in Tasks : pc[t] \in LogSteps}

\* the positions of the newline bytes in the file content c
LineEnds(c) == {i \in DOMAIN c : c[i].k = 0}
\* the line of c that ends at position e
LineEndingAt(c, e) == SubSeq(c, SetMax({i \in LineEnds(c) : i < e} \cup {0}) + 1, e)
\* the line is the JSON text of one record followed by its newline
WholeRecord(line) ==
    LET nl == line[Len(line)]
    IN line = RecordBytes(nl.id, nl.ts, nl.level, nl.of)

\* the newline-terminated lines of the log files are one whole record each
EveryLineOneRecord ==
    \A n \in DOMAIN disk : \A e \in LineEnds(disk[n]) :
        WholeRecord(LineEndingAt(disk[n], e))

\* C15: log calls of concurrent request-handling tasks on the shared logger
\* are serialized, and every line in every log file is exactly one complete
\* record: no two records share or split a line.
C15_EveryLineOneRecord ==
    /\ Cardinality(InLog) <= 1
    /\ EveryLineOneRecord

\* the serialization of C15 alone: at most one task is inside log, and from
\* its rotation check to its return no other task changes the logger or the
\* log files
LogCallsSerialized ==
    /\ [](Cardinality(InLog) <= 1)
    /\ [][\A t \in Tasks :
            (pc[t] \in LogSteps /\ pc'[t] = pc[t]) =>
                UNCHANGED <<current_date, current_file_index, file_writer,
                            disk, hist>>]_vars

\* the lines of C15 in the behaviours where no file operation fails
EveryLineOneRecordWithoutFaults == faults = 0 => EveryLineOneRecord

\* two requests have been logged while the other task was waiting for the guard
LogCallsSerializedSeen ==
    /\ Len(hist) >= 2
    /\ \E t \in Tasks : pc[t] \in LogSteps
    /\ \E t \in Tasks : pc[t] = "mw_lock"

\* a task returns from ErrorHandlerMiddleware::call
Responds(t) == pc[t] = "respond" /\ pc'[t] = "idle"

\* C16: for every request the error-handling middleware returns exactly the
\* inner service's response or error, whether its log calls succeeded,
\* returned io-failure or were skipped because the logger lock is poisoned;
\* after a log call of any result the request goes on to the inner service or
\* to its return.
C16_MiddlewareReturnsInnerResult ==
    /\ [](\A i \in DOMAIN served : served[i].response = served[i].result)
    /\ [][\A t \in Tasks :
            /\ Responds(t) =>
                  /\ Len(served') = Len(served) + 1
                  /\ served'[Len(served')].response = req[t].result
            /\ (pc[t] \in LogSteps /\ pc'[t] \notin LogSteps /\ logPoisoned' = logPoisoned)
                  => (pc'[t] = AfterLog(req[t].phase) /\ req'[t].result = req[t].result)
            /\ (pc[t] = "mw_lock" /\ pc'[t] # pc[t] /\ logPoisoned)
                  => (pc'[t] = AfterLog(req[t].phase) /\ req'[t] = req[t])]_vars

\* a request whose first log call returned io-failure and whose second was
\* skipped on the poisoned lock has been answered with the inner service's error
C16_Witness ==
    /\ logPoisoned
    /\ Len(hist) = 1 /\ ~hist[1].ok
    /\ Len(served) = 1
    /\ ~served[1].logOk
    /\ served[1].result = "err" /\ served[1].response = "err"

(***************************************************************************)
(* Claims about the callers of the logger (SpecMain)                       *)
(***************************************************************************)
\* the log call of this step was made by main before the server ran
ByMain == Len(hist) < MainLogSites

\* C25: a log call that returns io-failure never terminates the process and
\* never makes its caller panic: every caller of the logger (start-up code,
\* middleware, handlers) continues after a failed write.
C25_FailedLogIsNotFatal ==
    [][(LogStep /\ ~ReturnedOk) => up']_vars

\* the same for the callers of the running server
FailedLogIsNotFatalWhenServing ==
    [][(LogStep /\ ~ReturnedOk /\ ~ByMain) => up']_vars

\* a log call of the running server failed
FailedLogWhenServingSeen ==
    /\ Len(hist) > MainLogSites
    /\ ~hist[Len(hist)].ok
    /\ up

(***************************************************************************)
(* Claims about the locks of the running server (FairServer)               *)
(***************************************************************************)
\* task t takes the guard of the cache / of the shared logger / of file_writer
TakesCacheLock(t) == holder # t /\ holder' = t
TakesLoggerLock(t) == logHolder # t /\ logHolder' = t
TakesWriterLock(t) == writerHolder # t /\ writerHolder' = t
\* task t holds no guard
HoldsNone(t) == holder # t /\ logHolder # t /\ writerHolder # t
\* task t is inside a cache operation / a log call of the middleware (waiting
\* for the lock included)
InCacheOperation(t) == pc[t] \in {"lock"} \cup Critical
InLogOperation(t) == pc[t] \in {"mw_lock"} \cup LogSteps
\* task t is in the inner service (the awaited future) or between requests
Suspended(t) == pc[t] \in {"idle", "service", "respond"}

\* no lock is held across the call into the inner service or across a
\* suspension point
NoLockAcrossService == \A t \in Tasks : Suspended(t) => HoldsNone(t)

\* with a fair lock and no failed holder every cache or logger operation
\* started by a task eventually returns
OperationsReturn ==
    \A t \in Tasks :
        /\ InCacheOperation(t) ~> (~InCacheOperation(t) \/ poisoned)
        /\ InLogOperation(t) ~> (~InLogOperation(t) \/ logPoisoned)

====
